---- MODULE Spec2Model ----
(***************************************************************************)
(* Model of the profile store (src/db.py, class Database) and of the chat  *)
(* front-end that drives it (src/bot.py, on_message / prompt_user).        *)
(*                                                                         *)
(* Text is a sequence of one-character strings, so that substring search,  *)
(* SQL LIKE patterns, lower-casing, splitting and joining are computed     *)
(* character by character as SQLite and Python compute them.  SQL NULL /   *)
(* Python None is the value NULL, which is no text.                        *)
(***************************************************************************)
EXTENDS Integers, Sequences, FiniteSets, TLC

VARIABLES
    phase,      \* "closed" before Database(), then "open" or "failed"
    columns,    \* the columns of table profiles in the database file
    table,      \* the rows of table profiles
    now,        \* int(time.time())
    lastArgs,   \* history: the arguments of the latest upsert_profile per user id
    out,        \* the value returned (or raised) by the latest request
    sessions    \* the on_message handlers of the bot, one per slot

vars == <<phase, columns, table, now, lastArgs, out, sessions>>

----------------------------------------------------------------------------
(* Bounds of the model *)

MaxUsers == 2
MaxTime == 1
MaxLimit == 2
MaxSessions == 2
MaxOwners == 1

(* search(self, keyword, limit=20) *)
DefaultLimit == 20

Users == 1..MaxUsers
Limits == (-1..MaxLimit) \cup {DefaultLimit}
Slots == 1..MaxSessions
(* the users who talk to the bot *)
Owners == 1..MaxOwners

----------------------------------------------------------------------------
(* Text *)

NULL == <<"NULL">>

E == <<>>

UpperLetters == <<"A", "B", "I", "X">>
LowerLetters == <<"a", "b", "i", "x">>

(* one character of str.lower() / SQLite lower() on ASCII *)
LowerChar(c) ==
    IF \E i \in 1..Len(UpperLetters) : UpperLetters[i] = c
    THEN LowerLetters[CHOOSE i \in 1..Len(UpperLetters) : UpperLetters[i] = c]
    ELSE c

Lower(s) == [i \in 1..Len(s) |-> LowerChar(s[i])]

(* Python: k in s *)
Contains(s, k) ==
    \E i \in 0..(Len(s) - Len(k)) : SubSeq(s, i + 1, i + Len(k)) = k

(* Python: (v or '') *)
OrEmpty(v) == IF v = NULL THEN E ELSE v

IsSpace(c) == c = " "

RECURSIVE LStrip(_)
LStrip(s) == IF s # E /\ IsSpace(Head(s)) THEN LStrip(Tail(s)) ELSE s

RECURSIVE RStrip(_)
RStrip(s) ==
    IF s # E /\ IsSpace(s[Len(s)]) THEN RStrip(SubSeq(s, 1, Len(s) - 1)) ELSE s

(* Python: s.strip() *)
Strip(s) == RStrip(LStrip(s))

(* Python: s.split(sep) for a one-character sep; '' splits to [''] *)
RECURSIVE SplitAcc(_, _, _)
SplitAcc(s, sep, cur) ==
    IF s = E THEN <<cur>>
    ELSE IF Head(s) = sep THEN <<cur>> \o SplitAcc(Tail(s), sep, E)
    ELSE SplitAcc(Tail(s), sep, Append(cur, Head(s)))

Split(s, sep) == SplitAcc(s, sep, E)

(* Python: sep.join(parts) *)
RECURSIVE Join(_, _)
Join(parts, sep) ==
    IF parts = <<>> THEN E
    ELSE IF Len(parts) = 1 THEN parts[1]
    ELSE parts[1] \o sep \o Join(Tail(parts), sep)

RECURSIVE SelectNonEmpty(_)
SelectNonEmpty(parts) ==
    IF parts = <<>> THEN <<>>
    ELSE IF parts[1] # E THEN <<parts[1]>> \o SelectNonEmpty(Tail(parts))
    ELSE SelectNonEmpty(Tail(parts))

(* SQLite: str LIKE pat, no ESCAPE: % is any run of characters, _ is any   *)
(* one character, any other character matches itself ignoring ASCII case   *)
RECURSIVE Like(_, _)
Like(pat, str) ==
    IF pat = E THEN str = E
    ELSE IF Head(pat) = "%"
         THEN Like(Tail(pat), str) \/ (str # E /\ Like(pat, Tail(str)))
    ELSE /\ str # E
         /\ (Head(pat) = "_" \/ LowerChar(Head(pat)) = LowerChar(Head(str)))
         /\ Like(Tail(pat), Tail(str))

(* SQL: lower(field) LIKE '%keyword%'; NULL LIKE ... is NULL, which is not true *)
FieldLike(field, keyword) ==
    /\ field # NULL
    /\ Like(<<"%">> \o keyword \o <<"%">>, Lower(field))

----------------------------------------------------------------------------
(* The profiles table *)

BaseColumns == {"user_id", "name", "role", "description", "keywords", "updated_at"}
AllColumns == BaseColumns \cup {"company_name", "linkedin_url"}

(* the arguments of upsert_profile after user_id *)
Args(name, role, description, keywords, company_name, linkedin_url) ==
    [name |-> name, role |-> role, description |-> description,
     keywords |-> keywords, company_name |-> company_name,
     linkedin_url |-> linkedin_url]

Row(user_id, a, updated_at) ==
    [user_id |-> user_id, name |-> a.name, role |-> a.role,
     description |-> a.description, keywords |-> a.keywords,
     company_name |-> a.company_name, linkedin_url |-> a.linkedin_url,
     updated_at |-> updated_at]

ArgsOf(r) ==
    Args(r.name, r.role, r.description, r.keywords, r.company_name, r.linkedin_url)

(* Profiles the requests of the model write: name, role, description,      *)
(* keywords, company_name, linkedin_url                                    *)
PAlice == Args(<<"A","l">>, <<"A","I"," ","f">>, <<"b">>,
               <<"a","i",",","i","n">>, NULL, NULL)
PNull == Args(NULL, NULL, NULL, NULL, NULL, NULL)
PPlain == Args(<<"x">>, <<"x">>, E, E, NULL, NULL)
PUnder == Args(<<"a","_">>, E, E, E, NULL, NULL)
PExt == Args(<<"B","o">>, <<"a","i">>, E, <<"x",",","a","i">>,
             <<"A","i">>, <<"u">>)

Profiles == {PAlice, PNull, PPlain, PUnder, PExt}

(* Keywords the requests of the model search for *)
Keywords == {E, <<"a","i">>, <<"A","I">>, <<"_">>, <<"%">>, <<"x">>}

NoCall == [name |-> "none"]

None == [user_id |-> 0]

(* INSERT ... ON CONFLICT(user_id) DO UPDATE SET every column = excluded *)
UpsertTableNoConflict(t, user_id, a, ts) == t \cup {Row(user_id, a, ts)}

UpsertTableMerging(t, user_id, a, ts) ==
    LET old == {r \in t : r.user_id = user_id}
        keep(f, v) == IF v = NULL /\ old # {} THEN (CHOOSE r \in old : TRUE)[f] ELSE v
        b == [a EXCEPT !.company_name = keep("company_name", a.company_name),
                       !.linkedin_url = keep("linkedin_url", a.linkedin_url)]
    IN  {r \in t : r.user_id # user_id} \cup {Row(user_id, b, ts)}

UpsertTable(t, user_id, a, ts) ==
    {r \in t : r.user_id # user_id} \cup {Row(user_id, a, ts)}

(* SELECT ... WHERE user_id = ?; fetchone() *)
get_profile(t, user_id) ==
    IF \E r \in t : r.user_id = user_id
    THEN CHOOSE r \in t : r.user_id = user_id
    ELSE None

(* the six CASE WHEN lower(f) LIKE ? THEN 1 ELSE 0 END terms *)
One(b) == IF b THEN 1 ELSE 0

Score(r, keyword) ==
    One(FieldLike(r.name, keyword)) + One(FieldLike(r.role, keyword))
    + One(FieldLike(r.description, keyword)) + One(FieldLike(r.keywords, keyword))
    + One(FieldLike(r.company_name, keyword)) + One(FieldLike(r.linkedin_url, keyword))

(* the WHERE clause of search *)
Qualifies(r, keyword) ==
    \/ FieldLike(r.name, keyword) \/ FieldLike(r.role, keyword)
    \/ FieldLike(r.description, keyword) \/ FieldLike(r.keywords, keyword)
    \/ FieldLike(r.company_name, keyword) \/ FieldLike(r.linkedin_url, keyword)

(* every order of the rows of Q *)
Orderings(Q) ==
    {o \in [1..Cardinality(Q) -> Q] :
        \A i, j \in 1..Cardinality(Q) : i # j => o[i] # o[j]}

(* ORDER BY score DESC, updated_at DESC; rows equal in both come in any order *)
RankedBefore(x, y, keyword) ==
    \/ Score(x, keyword) > Score(y, keyword)
    \/ Score(x, keyword) = Score(y, keyword) /\ x.updated_at >= y.updated_at

SearchOrderings(t, keyword) ==
    {o \in Orderings({r \in t : Qualifies(r, keyword)}) :
        \A i, j \in 1..Len(o) : i < j => RankedBefore(o[i], o[j], keyword)}

(* LIMIT ?: a negative LIMIT is no limit in SQLite *)
TakeOneMore(rows, limit) ==
    IF limit < 0 \/ limit + 1 >= Len(rows) THEN rows ELSE SubSeq(rows, 1, limit + 1)

Take(rows, limit) ==
    IF limit < 0 \/ limit >= Len(rows) THEN rows ELSE SubSeq(rows, 1, limit)

(* klist = [k.strip() for k in (r['keywords'] or '').split(',') if k.strip()] *)
StripAll(parts) == [i \in 1..Len(parts) |-> Strip(parts[i])]

KList(keywords) == SelectNonEmpty(StripAll(Split(OrEmpty(keywords), ",")))

(* for k in klist: if keyword in k.lower(): matched.append(k) *)
RECURSIVE MatchedTerms(_, _)
MatchedTerms(klist, keyword) ==
    IF klist = <<>> THEN <<>>
    ELSE (IF Contains(Lower(klist[1]), keyword) THEN <<klist[1]>> ELSE <<>>)
         \o MatchedTerms(Tail(klist), keyword)

LabelName == <<"n","a","m","e">>
LabelCompany == <<"c","o","m","p","a","n","y">>
ProfileMatch == <<"p","r","o","f","i","l","e"," ","m","a","t","c","h">>
CommaSpace == <<",", " ">>

Matched(r, keyword) ==
    MatchedTerms(KList(r.keywords), keyword)
    \o (IF Contains(Lower(OrEmpty(r.name)), keyword) THEN <<LabelName>> ELSE <<>>)
    \o (IF Contains(Lower(OrEmpty(r.company_name)), keyword)
        THEN <<LabelCompany>> ELSE <<>>)

(* ', '.join(matched) if matched else 'profile match' *)
matched_keywords(r, keyword) ==
    IF Matched(r, keyword) # <<>> THEN Join(Matched(r, keyword), CommaSpace)
    ELSE ProfileMatch

(* one element of the list search returns *)
Result(r, keyword) ==
    [user_id |-> r.user_id, name |-> r.name, role |-> r.role,
     description |-> r.description, keywords |-> r.keywords,
     company_name |-> r.company_name, linkedin_url |-> r.linkedin_url,
     matched_keywords |-> matched_keywords(r, keyword)]

(* every list search(keyword, limit) can return *)
search(t, keyword, limit) ==
    {[i \in 1..Len(Take(o, limit)) |-> Result(o[i], keyword)] :
        o \in SearchOrderings(t, keyword)}

(* one element of the list search_roles returns *)
RoleResult(r) ==
    [user_id |-> r.user_id, name |-> r.name, role |-> r.role,
     description |-> r.description, keywords |-> r.keywords,
     company_name |-> r.company_name, linkedin_url |-> r.linkedin_url]

(* WHERE lower(role) LIKE ? ORDER BY updated_at DESC LIMIT ? *)
search_roles(t, keyword, limit) ==
    {[i \in 1..Len(Take(o, limit)) |-> RoleResult(o[i])] :
        o \in {p \in Orderings({r \in t : FieldLike(r.role, keyword)}) :
                 \A i, j \in 1..Len(p) : i < j => p[i].updated_at >= p[j].updated_at}}

(* SELECT user_id, name FROM profiles ORDER BY updated_at DESC *)
list_all_profiles(t) ==
    {[i \in 1..Len(o) |-> [user_id |-> o[i].user_id, name |-> o[i].name]] :
        o \in {p \in Orderings(t) :
                 \A i, j \in 1..Len(p) : i < j => p[i].updated_at >= p[j].updated_at}}

----------------------------------------------------------------------------
(* Requests against the store *)

(* every statement but list_all_profiles names company_name and linkedin_url *)
Healthy == columns = AllColumns

Reply(kind, user_id, keyword, limit, rows) ==
    [kind |-> kind, user_id |-> user_id, keyword |-> keyword, limit |-> limit,
     rows |-> rows]

NoReply == Reply("none", 0, E, 0, <<>>)

(* sqlite3.OperationalError: no such column *)
Raised(kind) == Reply("error:" \o kind, 0, E, 0, <<>>)

(* The calls are synchronous and come from one event loop: a request       *)
(* starts when the caller holds no reply of an earlier one                 *)
Ready == phase = "open" /\ out = NoReply

(* ALTER TABLE profiles ADD COLUMN c, inside try/except Exception: print *)
Migrate(cols, c, alterOk) ==
    IF c \notin cols /\ alterOk THEN cols \cup {c} ELSE cols

(* Database.__init__: connect, CREATE TABLE IF NOT EXISTS, the two migrations *)
DatabaseInit(createOk, alterCompanyOk, alterLinkedinOk) ==
    /\ phase = "closed"
    /\ IF ~createOk
       THEN /\ phase' = "failed"
            /\ UNCHANGED columns
       ELSE LET created == IF columns = {} THEN AllColumns ELSE columns
                withCompany == Migrate(created, "company_name", alterCompanyOk)
            IN  /\ columns' = Migrate(withCompany, "linkedin_url", alterLinkedinOk)
                /\ phase' = "open"
    /\ UNCHANGED <<table, now, lastArgs, out, sessions>>

(* time.time() moves on *)
Tick ==
    /\ now < MaxTime
    /\ now' = now + 1
    /\ UNCHANGED <<phase, columns, table, lastArgs, out, sessions>>

(* Database.upsert_profile; it returns nothing: the reply kept for it is   *)
(* history, the row the statement found under user_id (None: it inserted)  *)
Upsert(user_id, a) ==
    /\ Ready
    /\ IF Healthy
       THEN /\ table' = UpsertTable(table, user_id, a, now)
            /\ lastArgs' = [lastArgs EXCEPT ![user_id] = a]
            /\ out' = Reply("upsert", user_id, E, 0, <<get_profile(table, user_id)>>)
       ELSE /\ out' = Raised("upsert")
            /\ UNCHANGED <<table, lastArgs>>
    /\ UNCHANGED <<phase, columns, now, sessions>>

(* Database.get_profile *)
Get(user_id) ==
    /\ Ready
    /\ out' = IF Healthy
              THEN Reply("get", user_id, E, 0, <<get_profile(table, user_id)>>)
              ELSE Raised("get")
    /\ UNCHANGED <<phase, columns, table, now, lastArgs, sessions>>

(* Database.search *)
Search(keyword, limit) ==
    /\ Ready
    /\ IF Healthy
       THEN \E rows \in search(table, keyword, limit) :
                out' = Reply("search", 0, keyword, limit, rows)
       ELSE out' = Raised("search")
    /\ UNCHANGED <<phase, columns, table, now, lastArgs, sessions>>

(* Database.search_roles *)
SearchRoles(keyword, limit) ==
    /\ Ready
    /\ IF Healthy
       THEN \E rows \in search_roles(table, keyword, limit) :
                out' = Reply("search_roles", 0, keyword, limit, rows)
       ELSE out' = Raised("search_roles")
    /\ UNCHANGED <<phase, columns, table, now, lastArgs, sessions>>

(* Database.list_all_profiles *)
ListAll ==
    /\ Ready
    /\ \E rows \in list_all_profiles(table) :
           out' = Reply("list_all", 0, E, 0, rows)
    /\ UNCHANGED <<phase, columns, table, now, lastArgs, sessions>>

(* the words after "search" in the commands the users of the model send *)
ArgLists == {<<>>, <<<<"A","I">>>>, <<<<"x">>, <<"_">>>>}

(* "@MatchBot search <keyword>": outside #search-user or without a keyword *)
(* the handler only answers; otherwise it searches for                     *)
(* " ".join(args).strip().lower() with the default limit                   *)
SearchCommand(inSearchChannel, args) ==
    /\ Ready /\ Healthy
    /\ IF ~inSearchChannel THEN out' = Reply("wrong_channel", 0, E, 0, <<>>)
       ELSE IF args = <<>> THEN out' = Reply("usage", 0, E, 0, <<>>)
       ELSE LET keyword == Lower(Strip(Join(args, <<" ">>)))
            IN  \E rows \in search(table, keyword, DefaultLimit) :
                    out' = Reply("search", 0, keyword, DefaultLimit, rows)
    /\ UNCHANGED <<phase, columns, table, now, lastArgs, sessions>>

(* the caller is done with the value it was returned *)
Return ==
    /\ out # NoReply
    /\ out' = NoReply
    /\ UNCHANGED <<phase, columns, table, now, lastArgs, sessions>>

(* One on_message handler; the model follows MaxSessions of them, each     *)
(* from its command to its return.  pc: "idle" (the command has not come   *)
(* yet), "wait" (inside                                                    *)
(* client.wait_for of prompt number stage + 1), "returned".  name_role and *)
(* description are the handler's locals (new_name, new_desc in             *)
(* update-profile); before is db.get_profile(user) when the command        *)
(* arrived, which update-profile holds as profile.  History, set when the  *)
(* handler returns: how it ended, blanks (how many replies were empty),    *)
(* same (the user's row is the row of before), sameFields (it is the same  *)
(* but for updated_at); interfered: another handler wrote the user's row   *)
(* while this one was waiting; writes: how many times this handler has    *)
(* changed the table.                                                      *)
Session(pc, cmd, user, stage, name_role, description, before, blanks, interfered, writes, how, same, sameFields) ==
    [pc |-> pc, cmd |-> cmd, user |-> user, stage |-> stage,
     name_role |-> name_role, description |-> description, before |-> before,
     blanks |-> blanks, interfered |-> interfered, writes |-> writes,
     how |-> how, same |-> same, sameFields |-> sameFields]

Idle == Session("idle", "", 0, 0, E, E, None, 0, FALSE, 0, "", FALSE, FALSE)

(* The database file Database() is opened on: no table yet, or a table an  *)
(* earlier run left, with or without the two added columns                 *)
Schemas ==
    {{}, BaseColumns, BaseColumns \cup {"company_name"},
     BaseColumns \cup {"linkedin_url"}, AllColumns}

Init ==
    /\ phase = "closed"
    /\ columns \in Schemas
    /\ table \in IF columns = {} THEN {{}} ELSE {{}, {Row(1, PPlain, 0)}}
    /\ now = 0
    /\ lastArgs = [u \in Users |->
                     IF \E r \in table : r.user_id = u
                     THEN ArgsOf(CHOOSE r \in table : r.user_id = u)
                     ELSE NoCall]
    /\ out = NoReply
    /\ sessions = [s \in Slots |-> Idle]

Next ==
    \/ \E c, a1, a2 \in BOOLEAN : DatabaseInit(c, a1, a2)
    \/ Tick
    \/ \E u \in Users, a \in Profiles : Upsert(u, a)
    \/ \E u \in Users : Get(u)
    \/ \E k \in Keywords, l \in Limits : Search(k, l)
    \/ \E k \in Keywords, l \in Limits : SearchRoles(k, l)
    \/ ListAll
    \/ \E c \in BOOLEAN, a \in ArgLists : SearchCommand(c, a)
    \/ Return

Spec == Init /\ [][Next]_vars

----------------------------------------------------------------------------
(* The bot: on_message and prompt_user *)

(* the contents of the direct messages the users of the model send *)
Contents == {E, <<"A","i",","," ","B"," ">>}

(* ",".join([k.strip().lower() for k in keywords.split(",") if k.strip()]) *)
Normalise(keywords) ==
    Join(SelectNonEmpty([i \in 1..Len(Split(keywords, ",")) |->
                            Lower(Strip(Split(keywords, ",")[i]))]),
         <<",">>)

Waiting(ss, user) == ss.pc = "wait" /\ ss.user = user

(* the handler has returned; its locals are gone *)
Returned(ss, how, t) ==
    Session("returned", ss.cmd, ss.user, ss.stage, E, E, None, ss.blanks,
            ss.interfered, ss.writes, how,
            get_profile(t, ss.user) = ss.before,
            /\ get_profile(t, ss.user) # None
            /\ ss.before # None
            /\ ArgsOf(get_profile(t, ss.user)) = ArgsOf(ss.before))

(* slot s takes the next command: the slots are numbered by arrival *)
Arrives(s) ==
    /\ sessions[s].pc = "idle"
    /\ \A x \in Slots : x < s => sessions[x].pc # "idle"

(* "@MatchBot create-profile": the first prompt_user is sent and awaited *)
CreateProfile(s, user) ==
    /\ phase = "open" /\ Healthy
    /\ Arrives(s)
    /\ sessions' = [sessions EXCEPT ![s] =
           Session("wait", "create", user, 0, E, E, get_profile(table, user),
                   0, FALSE, 0, "", FALSE, FALSE)]
    /\ UNCHANGED <<phase, columns, table, now, lastArgs, out>>

(* "@MatchBot update-profile": without a profile the handler returns, with *)
(* one the first prompt_user is sent and awaited                           *)
UpdateProfile(s, user) ==
    /\ phase = "open" /\ Healthy
    /\ Arrives(s)
    /\ LET profile == get_profile(table, user)
           started == Session("wait", "update", user, 0, E, E, profile,
                              0, FALSE, 0, "", FALSE, FALSE)
       IN  sessions' = [sessions EXCEPT ![s] =
               IF profile = None THEN Returned(started, "no_profile", table)
               ELSE started]
    /\ UNCHANGED <<phase, columns, table, now, lastArgs, out>>

(* what a handler that got None from prompt_user leaves in the table:      *)
(* it sends "Timed out." and returns                                       *)
OnTimeoutSavesPartial(t, ss, ts) ==
    IF ss.stage = 2
    THEN UpsertTable(t, ss.user,
                     Args(ss.name_role, ss.name_role, ss.description, E, NULL, NULL),
                     ts)
    ELSE t

OnTimeout(t, ss, ts) == t

(* asyncio.TimeoutError in client.wait_for: prompt_user returns None *)
PromptTimeout(s) ==
    /\ sessions[s].pc = "wait"
    /\ table' = OnTimeout(table, sessions[s], now)
    /\ sessions' = [sessions EXCEPT ![s] =
           Returned([sessions[s] EXCEPT !.writes = @ + One(table' # table)],
                    "timeout", table')]
    /\ UNCHANGED <<phase, columns, now, lastArgs, out>>

(* if x == "": x = the stored value (update-profile only) *)
KeepIfBlank(ss, reply, stored) ==
    IF ss.cmd = "update" /\ reply = E THEN stored ELSE reply

(* the arguments of the handler's db.upsert_profile call *)
FinalArgs(ss, reply) ==
    Args(ss.name_role, ss.name_role, ss.description,
         IF ss.cmd = "update" /\ reply = E THEN ss.before.keywords
         ELSE Normalise(reply),
         NULL, NULL)

(* The handler in slot s gets reply from prompt_user and runs to its next  *)
(* await: it keeps the answer and prompts again, or after the third answer *)
(* calls db.upsert_profile and returns.  st is the table, the sessions     *)
(* and the history of upserts.                                             *)
AfterReply(st, s, reply, ts) ==
    LET ss == st.sessions[s]
        bl == ss.blanks + One(reply = E)
    IN  IF ss.stage = 0
        THEN [st EXCEPT !.sessions[s] =
                 [ss EXCEPT !.stage = 1, !.blanks = bl,
                            !.name_role = KeepIfBlank(ss, reply, ss.before.name)]]
        ELSE IF ss.stage = 1
        THEN [st EXCEPT !.sessions[s] =
                 [ss EXCEPT !.stage = 2, !.blanks = bl,
                            !.description =
                                KeepIfBlank(ss, reply, ss.before.description)]]
        ELSE LET t2 == UpsertTable(st.table, ss.user, FinalArgs(ss, reply), ts)
                 done == [ss EXCEPT !.stage = 3, !.blanks = bl, !.writes = @ + 1]
             IN  [table |-> t2,
                  lastArgs |-> [st.lastArgs EXCEPT ![ss.user] = FinalArgs(ss, reply)],
                  sessions |-> [x \in Slots |->
                      IF x = s THEN Returned(done, "saved", t2)
                      ELSE IF Waiting(st.sessions[x], ss.user)
                           THEN [st.sessions[x] EXCEPT !.interfered = TRUE]
                      ELSE st.sessions[x]]]

RECURSIVE Deliver(_, _, _, _)
Deliver(order, st, reply, ts) ==
    IF order = <<>> THEN st
    ELSE Deliver(Tail(order), AfterReply(st, order[1], reply, ts), reply, ts)

(* A direct message of user: client.dispatch resolves every wait_for whose *)
(* check accepts it, that is every handler waiting for this user, and the  *)
(* handlers resume one after the other; each gets msg.content.strip()      *)
DmMessage(user, content) ==
    /\ \E s \in Slots : Waiting(sessions[s], user)
    /\ \E order \in Orderings({s \in Slots : Waiting(sessions[s], user)}) :
          LET st == Deliver(order,
                            [table |-> table, sessions |-> sessions,
                             lastArgs |-> lastArgs],
                            Strip(content), now)
          IN  /\ table' = st.table
              /\ sessions' = st.sessions
              /\ lastArgs' = st.lastArgs
    /\ UNCHANGED <<phase, columns, now, out>>

(* The bot runs on an open, migrated store; the rows it finds may have     *)
(* been written through upsert_profile by other code                       *)
InitBot ==
    /\ phase = "open"
    /\ columns = AllColumns
    /\ \E S \in SUBSET Owners : table = {Row(u, PExt, 0) : u \in S}
    /\ now = MaxTime
    /\ lastArgs = [u \in Users |->
                     IF \E r \in table : r.user_id = u THEN PExt ELSE NoCall]
    /\ out = NoReply
    /\ sessions = [s \in Slots |-> Idle]

NextBot ==
    \/ \E s \in Slots, u \in Owners : CreateProfile(s, u)
    \/ \E s \in Slots, u \in Owners : UpdateProfile(s, u)
    \/ \E s \in Slots : PromptTimeout(s)
    \/ \E u \in Owners, c \in Contents : DmMessage(u, c)

SpecBot == InitBot /\ [][NextBot]_vars

----------------------------------------------------------------------------
(* Properties of the store, checked under Spec *)

Min(a, b) == IF a < b THEN a ELSE b

(* the stored row a returned record was made from *)
RowBehind(res) == CHOOSE r \in table : r.user_id = res.user_id

Listed(r) == \E i \in 1..Len(out.rows) : out.rows[i].user_id = r.user_id

NoDuplicates(rows) ==
    \A i, j \in 1..Len(rows) : i # j => rows[i].user_id # rows[j].user_id

(* the keyword occurs in the field as a literal substring, ignoring case;  *)
(* a null field contains nothing                                           *)
LiteralIn(field, keyword) ==
    field # NULL /\ Contains(Lower(field), Lower(keyword))

LiteralFields(r, keyword) ==
    {f \in {"name", "role", "description", "keywords", "company_name", "linkedin_url"} :
        LiteralIn(r[f], keyword)}

LiteralScore(r, keyword) == Cardinality(LiteralFields(r, keyword))

(* C1: get_profile(id) returns exactly the six values of the latest        *)
(* upsert_profile for that id: nothing of the row it replaced and nothing  *)
(* of another id's row survives, and an omitted company_name or            *)
(* linkedin_url reads back as null.                                        *)
C1_LastWriteWins ==
    /\ \A u \in Users :
          lastArgs[u] # NoCall =>
              /\ get_profile(table, u) # None
              /\ get_profile(table, u).user_id = u
              /\ ArgsOf(get_profile(table, u)) = lastArgs[u]
    /\ out.kind = "get" /\ lastArgs[out.user_id] # NoCall =>
          ArgsOf(out.rows[1]) = lastArgs[out.user_id]

(* an upsert has just replaced a row that had a company_name and a         *)
(* linkedin_url by one that omits them, while another user has a row       *)
C1_Witness ==
    /\ out.kind = "upsert"
    /\ out.rows[1] # None
    /\ out.rows[1].company_name # NULL
    /\ out.rows[1].name # out.rows[1].role
    /\ lastArgs[out.user_id].company_name = NULL
    /\ \E r \in table : r.user_id # out.user_id /\ r.company_name # NULL

(* C2: there is exactly one row per user id that was ever upserted and     *)
(* none for any other id, and no user id comes twice in what               *)
(* list_all_profiles, search or search_roles return.                       *)
C2_OneRowPerOwner ==
    /\ \A r \in table : r.user_id \in Users
    /\ \A u \in Users :
          Cardinality({r \in table : r.user_id = u})
              = (IF lastArgs[u] # NoCall THEN 1 ELSE 0)
    /\ out.kind \in {"list_all", "search", "search_roles"} => NoDuplicates(out.rows)

(* a second upsert for an owner has replaced that owner's row, and         *)
(* another owner has a row as well                                         *)
C2_Witness ==
    /\ out.kind = "upsert"
    /\ out.rows[1] # None
    /\ Cardinality(table) >= 2

(* C3: with limit at least the number of stored profiles, search returns   *)
(* a record if and only if the lowercased keyword is a literal substring   *)
(* of the lowercased value of one of its six fields.                       *)
C3_LiteralSubstring ==
    out.kind = "search" /\ out.limit >= Cardinality(table) =>
        \A r \in table : Listed(r) <=> LiteralFields(r, out.keyword) # {}

(* C4: with score(r) the number of the six fields of r that contain the    *)
(* keyword, a result listed before another has a larger score, or the      *)
(* same score and an updated_at at least as large.                         *)
C4_RankedByScoreThenRecency ==
    out.kind = "search" =>
        \A i, j \in 1..Len(out.rows) :
            i < j =>
                LET x == RowBehind(out.rows[i])
                    y == RowBehind(out.rows[j])
                    sx == LiteralScore(x, out.keyword)
                    sy == LiteralScore(y, out.keyword)
                IN  sx > sy \/ (sx = sy /\ x.updated_at >= y.updated_at)

HasWildcard(keyword) == \E i \in 1..Len(keyword) : keyword[i] \in {"%", "_"}

(* the ranking of C4 for the keywords that hold no % and no _ *)
RankedWithoutWildcards ==
    out.kind = "search" /\ ~HasWildcard(out.keyword) =>
        \A i, j \in 1..Len(out.rows) :
            i < j =>
                LET x == RowBehind(out.rows[i])
                    y == RowBehind(out.rows[j])
                    sx == LiteralScore(x, out.keyword)
                    sy == LiteralScore(y, out.keyword)
                IN  sx > sy \/ (sx = sy /\ x.updated_at >= y.updated_at)

(* a row outranks another in ORDER BY score DESC, updated_at DESC *)
Outranks(x, y, keyword) ==
    \/ Score(x, keyword) > Score(y, keyword)
    \/ Score(x, keyword) = Score(y, keyword) /\ x.updated_at > y.updated_at

Qualifying(keyword) == {r \in table : Qualifies(r, keyword)}

TruncatedRanking ==
    /\ NoDuplicates(out.rows)
    /\ \A i \in 1..Len(out.rows) : Qualifies(RowBehind(out.rows[i]), out.keyword)
    /\ \A i, j \in 1..Len(out.rows) :
          i < j => ~Outranks(RowBehind(out.rows[j]), RowBehind(out.rows[i]), out.keyword)
    /\ \A r \in Qualifying(out.keyword) :
          ~Listed(r) =>
              \A i \in 1..Len(out.rows) :
                  ~Outranks(r, RowBehind(out.rows[i]), out.keyword)

(* C5 as stated: for every limit passed to search the number of results    *)
(* is at most limit and equals min(limit, number of qualifying records),   *)
(* and the results are a prefix of the ranking of the qualifying records.  *)
C5_LimitForEveryValue ==
    out.kind = "search" =>
        /\ Len(out.rows) <= out.limit
        /\ Len(out.rows) = Min(out.limit, Cardinality(Qualifying(out.keyword)))
        /\ TruncatedRanking

(* C5 as amended: for every limit >= 0 the number of results is            *)
(* min(limit, number of qualifying records); for a negative limit every    *)
(* qualifying record is returned; in both cases the results are a prefix   *)
(* of the ranking of the qualifying records.                               *)
C5_LimitNonNegative ==
    out.kind = "search" =>
        /\ out.limit >= 0 =>
              Len(out.rows) = Min(out.limit, Cardinality(Qualifying(out.keyword)))
        /\ out.limit < 0 =>
              Len(out.rows) = Cardinality(Qualifying(out.keyword))
        /\ TruncatedRanking

(* a search with limit 1 has left out a qualifying record that ranks       *)
(* strictly below the one it returned                                      *)
C5_Witness ==
    /\ out.kind = "search"
    /\ out.limit = 1
    /\ Len(out.rows) = 1
    /\ \E r \in Qualifying(out.keyword) :
          ~Listed(r) /\ Outranks(RowBehind(out.rows[1]), r, out.keyword)

(* C6: search("") with limit at least the number of stored profiles        *)
(* returns every stored profile, and raises nothing.                       *)
C6_EmptyKeywordMatchesAll ==
    out.kind = "search" /\ out.keyword = E /\ out.limit >= Cardinality(table) =>
        \A r \in table : Listed(r)

(* the explanation C7 describes *)
RECURSIVE ClaimedTerms(_, _)
ClaimedTerms(klist, keyword) ==
    IF klist = <<>> THEN <<>>
    ELSE (IF Contains(Lower(klist[1]), Lower(keyword)) THEN <<klist[1]>> ELSE <<>>)
         \o ClaimedTerms(Tail(klist), keyword)

ClaimedList(r, keyword) ==
    ClaimedTerms(KList(r.keywords), keyword)
    \o (IF LiteralIn(r.name, keyword) THEN <<LabelName>> ELSE <<>>)
    \o (IF LiteralIn(r.company_name, keyword) THEN <<LabelCompany>> ELSE <<>>)

ClaimedExplanation(r, keyword) ==
    IF ClaimedList(r, keyword) = <<>> THEN ProfileMatch
    ELSE Join(ClaimedList(r, keyword), CommaSpace)

(* C7: matched_keywords of a returned record is the ', '-joined list of    *)
(* the terms of its keywords that contain the search keyword ignoring      *)
(* case, then 'name' iff the keyword matched the name field, then          *)
(* 'company' iff it matched the company_name field, and 'profile match'    *)
(* iff that list is empty.                                                 *)
C7_MatchedKeywords ==
    out.kind = "search" =>
        \A i \in 1..Len(out.rows) :
            out.rows[i].matched_keywords
                = ClaimedExplanation(RowBehind(out.rows[i]), out.keyword)

(* the example of C7: name 'Al', role 'AI f', keywords 'ai,in',            *)
(* search('ai') explains the hit as 'ai'                                   *)
C7_Example ==
    out.kind = "search" /\ out.keyword = <<"a","i">> =>
        \A i \in 1..Len(out.rows) :
            ArgsOf(RowBehind(out.rows[i])) = PAlice =>
                out.rows[i].matched_keywords = <<"a","i">>

(* C9: no request is served by a store whose migration failed: once        *)
(* Database() has returned, company_name and linkedin_url are columns of   *)
(* the table every request runs against.                                   *)
C9_MigratedOrNotServing ==
    out # NoReply => Healthy

----------------------------------------------------------------------------
(* Properties of the bot, checked under SpecBot *)

(* C8 as stated: a handler whose prompt times out has not called           *)
(* upsert_profile and the owner's stored profile (or its absence) is       *)
(* exactly what it was before the command; a handler calls upsert_profile  *)
(* at most once, and only after all three prompts were answered.           *)
C8_TimeoutLeavesProfile ==
    \A s \in Slots :
        /\ sessions[s].writes <= 1
        /\ sessions[s].writes = 1 => sessions[s].stage = 3
        /\ sessions[s].pc = "returned" /\ sessions[s].how = "timeout" =>
              sessions[s].writes = 0 /\ sessions[s].same

(* C8 as amended: a handler whose prompt times out has not called          *)
(* upsert_profile, so the owner's stored profile is what it was before     *)
(* the command unless another handler of the same owner wrote it           *)
(* meanwhile; a handler calls upsert_profile at most once, and only after  *)
(* all three prompts were answered.                                        *)
C8_TimeoutNeverWrites ==
    \A s \in Slots :
        /\ sessions[s].writes <= 1
        /\ sessions[s].writes = 1 => sessions[s].stage = 3
        /\ sessions[s].pc = "returned" /\ sessions[s].how = "timeout" =>
              /\ sessions[s].writes = 0
              /\ ~sessions[s].interfered => sessions[s].same

(* an update-profile handler of an owner with a profile has timed out at   *)
(* the keywords prompt, after two answers, and another handler has timed   *)
(* out at its first prompt                                                 *)
C8_Witness ==
    /\ \E s \in Slots :
          /\ sessions[s].pc = "returned" /\ sessions[s].how = "timeout"
          /\ sessions[s].cmd = "update" /\ sessions[s].stage = 2
          /\ sessions[s].blanks = 1
          /\ ~sessions[s].interfered /\ sessions[s].sameFields
    /\ \E s \in Slots :
          /\ sessions[s].pc = "returned" /\ sessions[s].how = "timeout"
          /\ sessions[s].cmd = "create" /\ sessions[s].stage = 0

(* C10: an update-profile handler whose three replies were empty, with no  *)
(* other write to the owner meanwhile, leaves the profile equal to the     *)
(* one before in every field but updated_at.                               *)
C10_BlankUpdateKeepsProfile ==
    \A s \in Slots :
        /\ sessions[s].pc = "returned" /\ sessions[s].how = "saved"
        /\ sessions[s].cmd = "update" /\ sessions[s].blanks = 3
        /\ ~sessions[s].interfered
        => sessions[s].sameFields

(* C10 for the profiles the bot itself writes (role equal to name, no      *)
(* company_name, no linkedin_url)                                          *)
BlankUpdateKeepsOwnFields ==
    \A s \in Slots :
        /\ sessions[s].pc = "returned" /\ sessions[s].how = "saved"
        /\ sessions[s].cmd = "update" /\ sessions[s].blanks = 3
        /\ ~sessions[s].interfered
        =>  LET r == get_profile(table, sessions[s].user)
            IN  \/ sessions[s].sameFields
                \/ r.role = r.name /\ r.company_name = NULL /\ r.linkedin_url = NULL

====
